---- MODULE Spec2Model ----
(***************************************************************************)
(* Model of the `Derefable` derive macro (derefable/src/lib.rs).           *)
(*                                                                         *)
(* impl_derefable takes a parsed declaration (syn::DeriveInput), walks the *)
(* fields and their attributes, and either panics with one of four         *)
(* messages or emits `impl Deref` and, optionally, `impl DerefMut`.        *)
(* The walk is modelled one attribute at a time; the locals of             *)
(* impl_derefable (deref_field, is_field_mutable) and the loop cursors     *)
(* are the state.  The emitted impls are modelled by what they do to an    *)
(* instance of the struct (tests/basic.rs).                                *)
(***************************************************************************)
EXTENDS Integers, Sequences, FiniteSets, TLC

\* Bounds of the main specification: fields per declaration, attributes per
\* declaration (summed over its fields).
MaxFields == 3
MaxAttrs == 2

\* Bounds of the specification that runs the generated impls.
UseMaxFields == 2
UseMaxAttrs == 1

\* Bounds of the specification that invokes the macro repeatedly.
HostMaxFields == 1
HostMaxAttrs == 1

VARIABLES
    ast,               \* the DeriveInput being processed
    pc,                \* position in impl_derefable
    i,                 \* enumerate() index of the field loop, zero-based
    j,                 \* number of attributes of field i already visited
    deref_field,       \* Option<(Field, u32)>
    is_field_mutable,  \* bool
    result,            \* outcome of the invocation: panic or emitted impls
    instance,          \* a value of the struct the impls were derived for
    written,           \* value last assigned through DerefMut, if any
    observed,          \* value read through Deref since then, if any
    remembered         \* an earlier invocation: its declaration and outcome

vars == <<ast, pc, i, j, deref_field, is_field_mutable, result,
          instance, written, observed, remembered>>

----------------------------------------------------------------------------
\* The four panics of impl_derefable, named after the kinds of the
\* specification's error table.

\* panic!("`#[derive(Derefable)]` is only available for structs")
UnsupportedTypeKind == "UnsupportedTypeKind"
\* panic!("`#[derive(Derefable)]` requires a field to be able to deref")
NoFieldsToDeref == "NoFieldsToDeref"
\* panic!("Only one field in a struct can be `#[deref]`"), in both arms
MultipleDerefFields == "MultipleDerefFields"
\* panic!("`#[derive(Derefable)]` requires one field to be marked `#[deref]`")
NoDerefFieldSpecified == "NoDerefFieldSpecified"

Panic(message) == [kind |-> "Panic", error |-> message]

Pending == [kind |-> "Pending"]

None == [some |-> FALSE]

Some(field, index) == [some |-> TRUE, field |-> field, index |-> index]

----------------------------------------------------------------------------
\* Inputs: attributes, fields, declarations.

\* An item of a `deref(...)` list: NestedMeta::Meta(Word | List | NameValue)
\* or NestedMeta::Literal.
NestedWord(name) == [kind |-> "Meta", form |-> "Word", ident |-> name]
NestedNameValue(name) == [kind |-> "Meta", form |-> "NameValue", ident |-> name]
NestedList(name) == [kind |-> "Meta", form |-> "List", ident |-> name]
NestedLiteral(text) == [kind |-> "Literal", form |-> "Lit", ident |-> text]

NestedLists ==
    { <<>>,
      <<NestedWord("mutable")>>,
      <<NestedWord("other")>>,
      <<NestedNameValue("mutable"), NestedList("mutable")>>,
      <<NestedLiteral("mutable")>>,
      <<NestedWord("other"), NestedWord("mutable")>> }

\* An attribute as written: its path and the shape of its tokens.
\* "Other" tokens are those parse_meta cannot read as a meta item.
Attr(path, tts, nested) == [path |-> path, tts |-> tts, nested |-> nested]

Attributes ==
    { Attr("deref", "Word", <<>>) }
    \cup { Attr("deref", "List", n) : n \in NestedLists }
    \cup { Attr("other", "Word", <<>>),
           Attr("other", "List", <<NestedWord("mutable")>>),
           Attr("deref", "NameValue", <<>>),
           Attr("deref", "Other", <<>>) }

\* Declared types of the fields, by position.
FieldTypes == <<"u32", "String", "bool", "u8", "u16", "u64">>

\* Names of the fields of a brace struct, by position.
FieldNames == <<"bar", "num", "inner", "fourth", "fifth", "sixth">>

NoIdent == [some |-> FALSE, name |-> ""]

Ident(name) == [some |-> TRUE, name |-> name]

\* All sequences of exactly n attributes over an alphabet.
RECURSIVE AttrSeqs(_, _)
AttrSeqs(alphabet, n) ==
    IF n = 0 THEN { <<>> }
    ELSE { Append(rest, a) : rest \in AttrSeqs(alphabet, n - 1), a \in alphabet }

\* The identifier of the n-th field: named in a brace struct, absent in a
\* tuple struct.
IdentAt(style, n) == IF style = "Named" THEN Ident(FieldNames[n]) ELSE NoIdent

\* Fields::Unit has no field list; enums and unions stand here with the
\* fields of their variants, which impl_derefable never looks at.
Shapes ==
    { <<"Struct", "Named">>, <<"Struct", "Unnamed">>,
      <<"Enum", "Named">>, <<"Union", "Named">> }

UnitShapes == { <<"Struct", "Unit">>, <<"Enum", "Unit">> }

----------------------------------------------------------------------------
\* impl_derefable.

\* attribute.parse_meta(): Ok(meta) or Err.
ParseMeta(attribute) ==
    IF attribute.tts \in {"Word", "List", "NameValue"}
    THEN [ok |-> TRUE, form |-> attribute.tts, ident |-> attribute.path,
          nested |-> attribute.nested]
    ELSE [ok |-> FALSE, form |-> "", ident |-> "", nested |-> <<>>]

\* A variant that looks at the item's name only, whatever kind of item it is.
IsMutableItemByName(nested_item) == nested_item.ident = "mutable"

\* The closure of nested.iter().any(..).
IsMutableItem(nested_item) ==
    IF nested_item.kind = "Meta"
    THEN IF nested_item.form = "Word" THEN nested_item.ident = "mutable" ELSE FALSE
    ELSE FALSE

AnyMutable(nested) == \E k \in 1..Len(nested) : IsMutableItem(nested[k])

\* `i as u32`: the index modulo 2^32, computed in 16-bit halves.
AsU32(n) == (n % 65536) + 65536 * ((n \div 65536) % 65536)

\* A variant in which the first marked field wins and later ones are passed
\* over.
SelectFirstWins(locals, field, index) ==
    IF ~locals.deref_field.some
    THEN [locals EXCEPT !.deref_field = Some(field, AsU32(index))]
    ELSE locals

\* if deref_field.is_none() { deref_field = Some(..) } else { panic!(..) }
SelectOrPanic(locals, field, index) ==
    IF ~locals.deref_field.some
    THEN [locals EXCEPT !.deref_field = Some(field, AsU32(index))]
    ELSE [locals EXCEPT !.panicked = TRUE]

\* The Meta::Word arm.
WordArm(locals, field, index) == SelectOrPanic(locals, field, index)

\* The Meta::List arm: is_field_mutable is assigned before the check.
ListArm(locals, field, index, nested) ==
    SelectOrPanic([locals EXCEPT !.is_field_mutable = AnyMutable(nested)],
                  field, index)

\* A variant that matches on the attribute's name alone, so that
\* `deref = ..` counts as the bare marker.
VisitOneByName(locals, field, index, attribute) ==
    LET meta == ParseMeta(attribute) IN
    IF ~meta.ok THEN locals
    ELSE IF meta.form = "List" /\ meta.ident = "deref"
         THEN ListArm(locals, field, index, meta.nested)
    ELSE IF meta.ident = "deref"
         THEN WordArm(locals, field, index)
    ELSE locals

\* The body of the attribute loop.
VisitOne(locals, field, index, attribute) ==
    LET meta == ParseMeta(attribute) IN
    IF ~meta.ok THEN locals
    ELSE IF meta.form = "Word" /\ meta.ident = "deref"
         THEN WordArm(locals, field, index)
    ELSE IF meta.form = "List" /\ meta.ident = "deref"
         THEN ListArm(locals, field, index, meta.nested)
    ELSE locals

\* A variant that always reaches the field by position.
AccessorByIndex(field, index) ==
    [kind |-> "Index", name |-> "", index |-> index]

\* field.ident, or Index { index } for a tuple field.
Accessor(field, index) ==
    IF field.ident.some
    THEN [kind |-> "Ident", name |-> field.ident.name, index |-> 0]
    ELSE [kind |-> "Index", name |-> "", index |-> index]

NoImpl == [present |-> FALSE]

\* A variant whose DerefMut reaches the first field instead of #ident.
MutGenFirstField(mutable, ident) ==
    IF mutable
    THEN [present |-> TRUE, accessor |-> [kind |-> "Index", name |-> "", index |-> 0]]
    ELSE NoImpl

\* mut_gen.
MutGen(mutable, ident) ==
    IF mutable THEN [present |-> TRUE, accessor |-> ident] ELSE NoImpl

\* gen.
Generate(selected, mutable) ==
    LET ident == Accessor(selected.field, selected.index) IN
    [kind |-> "Generated",
     deref |-> [target |-> selected.field.ty, accessor |-> ident],
     deref_mut |-> MutGen(mutable, ident)]

\* A variant in which is_field_mutable keeps what the last invocation left.
StaleMutable == is_field_mutable

\* The values the locals are declared with.
InitialDerefField == None
InitialMutable == FALSE

\* A variant with the two checks in the other order.
EntryCheckFieldsFirst(decl) ==
    IF decl.style = "Unit" THEN Panic(NoFieldsToDeref)
    ELSE IF decl.kind # "Struct" THEN Panic(UnsupportedTypeKind)
    ELSE Pending

\* The `match ast.data` and `match data.fields` checks, in that order.
EntryCheck(decl) ==
    IF decl.kind # "Struct" THEN Panic(UnsupportedTypeKind)
    ELSE IF decl.style = "Unit" THEN Panic(NoFieldsToDeref)
    ELSE Pending

\* A variant that leaves the loop after the first field.
FieldsExhaustedEarly(decl, index) ==
    index >= Len(decl.fields) \/ index >= 1

\* The field loop has run out of fields.
FieldsExhausted(decl, index) == index >= Len(decl.fields)

\* The check after the loops and the emission.
Conclude(selected, mutable) ==
    IF ~selected.some THEN Panic(NoDerefFieldSpecified)
    ELSE Generate(selected, mutable)

Enter ==
    /\ pc = "entry"
    /\ LET checked == EntryCheck(ast) IN
       IF checked.kind = "Panic"
       THEN /\ result' = checked
            /\ pc' = "done"
            /\ UNCHANGED <<i, j, deref_field, is_field_mutable>>
       ELSE /\ deref_field' = InitialDerefField
            /\ is_field_mutable' = InitialMutable
            /\ i' = 0
            /\ j' = 0
            /\ pc' = "loop"
            /\ UNCHANGED result
    /\ UNCHANGED <<ast, instance, written, observed, remembered>>

VisitAttribute ==
    /\ pc = "loop"
    /\ ~FieldsExhausted(ast, i)
    /\ j < Len(ast.fields[i + 1].attrs)
    /\ LET field == ast.fields[i + 1]
           locals == [deref_field |-> deref_field,
                      is_field_mutable |-> is_field_mutable,
                      panicked |-> FALSE]
           after == VisitOne(locals, field, i, field.attrs[j + 1])
       IN /\ deref_field' = after.deref_field
          /\ is_field_mutable' = after.is_field_mutable
          /\ IF after.panicked
             THEN /\ result' = Panic(MultipleDerefFields)
                  /\ pc' = "done"
                  /\ j' = j
             ELSE /\ j' = j + 1
                  /\ UNCHANGED <<result, pc>>
    /\ UNCHANGED <<ast, i, instance, written, observed, remembered>>

NextField ==
    /\ pc = "loop"
    /\ ~FieldsExhausted(ast, i)
    /\ j >= Len(ast.fields[i + 1].attrs)
    /\ i' = i + 1
    /\ j' = 0
    /\ UNCHANGED <<ast, pc, deref_field, is_field_mutable, result,
                   instance, written, observed, remembered>>

Finish ==
    /\ pc = "loop"
    /\ FieldsExhausted(ast, i)
    /\ result' = Conclude(deref_field, is_field_mutable)
    /\ pc' = "done"
    /\ UNCHANGED <<ast, i, j, deref_field, is_field_mutable,
                   instance, written, observed, remembered>>


----------------------------------------------------------------------------
\* derefable_derive: the compiler hands over one annotated declaration.

NoDeclaration == [kind |-> "None", style |-> "None", fields |-> <<>>]

\* syn::parse(input): the declaration is any of those within the bounds.
RECURSIVE Parsed(_, _, _, _, _, _)
Parsed(kind, style, n, budget, alphabet, acc) ==
    IF n = 0
    THEN ast' = [kind |-> kind, style |-> style, fields |-> acc]
    ELSE \E a \in 0..budget : \E as \in AttrSeqs(alphabet, a) :
            Parsed(kind, style, n - 1, budget - a, alphabet,
                   Append(acc, [ident |-> IdentAt(style, Len(acc) + 1),
                                ty |-> FieldTypes[Len(acc) + 1],
                                attrs |-> as]))

DeriveFrom(maxFields, maxAttrs, alphabet) ==
    /\ pc = "idle"
    /\ \/ \E s \in UnitShapes : Parsed(s[1], s[2], 0, 0, alphabet, <<>>)
       \/ \E s \in Shapes, n \in 0..maxFields :
             Parsed(s[1], s[2], n, maxAttrs, alphabet, <<>>)
    /\ pc' = "entry"
    /\ UNCHANGED <<i, j, deref_field, is_field_mutable, result,
                   instance, written, observed, remembered>>

Derive == DeriveFrom(MaxFields, MaxAttrs, Attributes)

----------------------------------------------------------------------------
\* The emitted impls at work on a value of the struct (tests/basic.rs).

Values == {5, 10}

NoInstance == <<>>
NoValue == [some |-> FALSE, value |-> 0]

Value(v) == [some |-> TRUE, value |-> v]

\* The position of the field that `self.#ident` names.
Resolve(decl, accessor) ==
    IF accessor.kind = "Ident"
    THEN CHOOSE p \in 1..Len(decl.fields) :
            decl.fields[p].ident = Ident(accessor.name)
    ELSE accessor.index + 1

\* fn deref(&self) -> &Self::Target { &self.#ident }
DerefOf(decl, generated, value) ==
    value[Resolve(decl, generated.deref.accessor)]

\* `*foo = v` through fn deref_mut(&mut self) { &mut self.#ident }
AssignThrough(decl, generated, value, v) ==
    [value EXCEPT ![Resolve(decl, generated.deref_mut.accessor)] = v]

RECURSIVE InstancesOf(_)
InstancesOf(n) ==
    IF n = 0 THEN { <<>> }
    ELSE { Append(rest, v) : rest \in InstancesOf(n - 1), v \in Values }

DeriveUse == DeriveFrom(UseMaxFields, UseMaxAttrs, Attributes)

\* let mut foo = Mut { num: 5 };
Construct ==
    /\ pc = "done"
    /\ result.kind = "Generated"
    /\ instance = NoInstance
    /\ instance' \in InstancesOf(Len(ast.fields))
    /\ UNCHANGED <<ast, pc, i, j, deref_field, is_field_mutable, result,
                   written, observed, remembered>>

\* *foo = 10;
DerefMutAssign ==
    /\ pc = "done"
    /\ instance # NoInstance
    /\ result.deref_mut.present
    /\ \E v \in Values :
          /\ instance' = AssignThrough(ast, result, instance, v)
          /\ written' = Value(v)
    /\ observed' = NoValue
    /\ UNCHANGED <<ast, pc, i, j, deref_field, is_field_mutable, result,
                   remembered>>

\* *foo
DerefRead ==
    /\ pc = "done"
    /\ instance # NoInstance
    /\ observed' = Value(DerefOf(ast, result, instance))
    /\ UNCHANGED <<ast, pc, i, j, deref_field, is_field_mutable, result,
                   instance, written, remembered>>

----------------------------------------------------------------------------
\* The compiler invoking the derive again, for the same or another type.

HostAttributes ==
    { Attr("deref", "Word", <<>>),
      Attr("deref", "List", <<NestedWord("mutable")>>) }

DeriveHost == DeriveFrom(HostMaxFields, HostMaxAttrs, HostAttributes)

\* impl_derefable has returned or panicked and derefable_derive has handed
\* the outcome back; the parsed input is gone.  What the locals of
\* impl_derefable held stays where it was until the next invocation declares
\* them anew.  `remembered` is the observer's note of one earlier outcome.
Return ==
    /\ pc = "done"
    /\ pc' = "idle"
    /\ ast' = NoDeclaration
    /\ result' = Pending
    /\ \/ remembered' = [some |-> TRUE, ast |-> ast, result |-> result,
                          intervened |-> FALSE]
       \/ /\ remembered.some
          /\ remembered' = [remembered EXCEPT !.intervened = @ \/ remembered.ast # ast]
       \/ /\ ~remembered.some
          /\ UNCHANGED remembered
    /\ UNCHANGED <<i, j, deref_field, is_field_mutable,
                   instance, written, observed>>

----------------------------------------------------------------------------

Init ==
    /\ ast = NoDeclaration
    /\ pc = "idle"
    /\ i = 0
    /\ j = 0
    /\ deref_field = None
    /\ is_field_mutable = FALSE
    /\ result = Pending
    /\ instance = NoInstance
    /\ written = NoValue
    /\ observed = NoValue
    /\ remembered = [some |-> FALSE]

Next == Derive \/ Enter \/ VisitAttribute \/ NextField \/ Finish

Spec == Init /\ [][Next]_vars

NextUse ==
    \/ DeriveUse \/ Enter \/ VisitAttribute \/ NextField \/ Finish
    \/ Construct \/ DerefMutAssign \/ DerefRead

SpecUse == Init /\ [][NextUse]_vars

NextHost ==
    \/ DeriveHost \/ Enter \/ VisitAttribute \/ NextField \/ Finish
    \/ Return

SpecHost == Init /\ [][NextHost]_vars

----------------------------------------------------------------------------
\* Vocabulary of the properties: what the declaration says, read off the
\* declaration itself.

BareMarker == Attr("deref", "Word", <<>>)

MutableMarker == Attr("deref", "List", <<NestedWord("mutable")>>)

IsParameterized(a) == a.path = "deref" /\ a.tts = "List"

IsRecognized(a) == a = BareMarker \/ IsParameterized(a)

NamesMutable(a) ==
    /\ IsParameterized(a)
    /\ \E k \in 1..Len(a.nested) : a.nested[k] = NestedWord("mutable")

MarkersOn(field) == { k \in 1..Len(field.attrs) : IsRecognized(field.attrs[k]) }

MarkedFields(decl) ==
    { p \in 1..Len(decl.fields) : MarkersOn(decl.fields[p]) # {} }

\* Field p carries the declaration's only recognized marker, as attribute k.
SoleMarker(decl, p, k) ==
    /\ MarkedFields(decl) = {p}
    /\ MarkersOn(decl.fields[p]) = {k}

SecondMarked(decl) ==
    CHOOSE p \in MarkedFields(decl) :
        Cardinality({ q \in MarkedFields(decl) : q < p }) = 1

ExpectedAccessor(decl, p) ==
    IF decl.style = "Named"
    THEN [kind |-> "Ident", name |-> FieldNames[p], index |-> 0]
    ELSE [kind |-> "Index", name |-> "", index |-> p - 1]

Done == pc = "done"

IsStruct == ast.kind = "Struct"

NumFields == Len(ast.fields)

----------------------------------------------------------------------------
\* C1: every struct with zero fields (unit, empty braces, empty parentheses)
\* fails with NoFieldsToDeref and with no other kind.
C1_ZeroFieldsFail ==
    (Done /\ IsStruct /\ NumFields = 0) => result = Panic(NoFieldsToDeref)

\* C2: a struct in which two or more distinct fields carry a recognized
\* marker, of either form and at any positions, fails with
\* MultipleDerefFields, no later than at the second marked field, and no
\* impl is emitted.
C2_MultipleMarkedFieldsFail ==
    (Done /\ IsStruct /\ Cardinality(MarkedFields(ast)) >= 2) =>
        /\ result = Panic(MultipleDerefFields)
        /\ i + 1 <= SecondMarked(ast)

C2_Witness ==
    /\ Done /\ IsStruct /\ NumFields = 3
    /\ MarkedFields(ast) = {1, 3}
    /\ ast.fields[1].attrs = <<MutableMarker>>
    /\ ast.fields[3].attrs = <<BareMarker>>
    /\ result = Panic(MultipleDerefFields)

\* C3: on success DerefMut is emitted exactly when the selected field's
\* marker is the parameterized form whose list contains the word `mutable`;
\* a sole parameterized marker without that word (empty list, other words,
\* name-value items, literals) is accepted and selects the field read-only.
C3_DerefMutIffMutableFlag ==
    (Done /\ IsStruct) =>
        /\ result.kind = "Generated" =>
              /\ Cardinality(MarkedFields(ast)) = 1
              /\ \A p \in MarkedFields(ast) :
                    result.deref_mut.present <=>
                        \E k \in MarkersOn(ast.fields[p]) :
                            NamesMutable(ast.fields[p].attrs[k])
        /\ \A p \in 1..NumFields : \A k \in 1..Len(ast.fields[p].attrs) :
              ( /\ SoleMarker(ast, p, k)
                /\ IsParameterized(ast.fields[p].attrs[k])
                /\ ~NamesMutable(ast.fields[p].attrs[k]) )
              => (result.kind = "Generated" /\ ~result.deref_mut.present)

C3_Witness ==
    /\ Done /\ IsStruct
    /\ \E p \in 1..NumFields : \E k \in 1..Len(ast.fields[p].attrs) :
          /\ SoleMarker(ast, p, k)
          /\ ast.fields[p].attrs[k] = Attr("deref", "List", <<NestedLiteral("mutable")>>)
    /\ result.kind = "Generated"
    /\ ~result.deref_mut.present

\* C4: a struct whose only recognized marker is one bare marker on field p
\* is processed successfully; the emitted Deref has the type of field p as
\* Target, reaches the field by name if it is named and by its zero-based
\* position among all fields otherwise, and returns the value of field p.
C4_BareMarkerDerefsToField ==
    (Done /\ IsStruct) =>
        \A p \in 1..NumFields : \A k \in 1..Len(ast.fields[p].attrs) :
            (SoleMarker(ast, p, k) /\ ast.fields[p].attrs[k] = BareMarker) =>
                /\ result.kind = "Generated"
                /\ result.deref.target = FieldTypes[p]
                /\ result.deref.accessor = ExpectedAccessor(ast, p)
                /\ \A value \in InstancesOf(NumFields) :
                      DerefOf(ast, result, value) = value[p]

C4_Witness ==
    /\ Done /\ IsStruct /\ ast.style = "Unnamed" /\ NumFields = 3
    /\ SoleMarker(ast, 2, 1)
    /\ ast.fields[2].attrs = <<BareMarker>>
    /\ result.kind = "Generated"
    /\ result.deref.accessor.index = 1

\* C5: a struct with at least one field and no recognized marker fails with
\* NoDerefFieldSpecified, and only once every field has been walked.
C5_NoMarkerFailsAfterWalk ==
    (Done /\ IsStruct /\ NumFields >= 1 /\ MarkedFields(ast) = {}) =>
        /\ result = Panic(NoDerefFieldSpecified)
        /\ i = NumFields

C5_Witness ==
    /\ Done /\ IsStruct /\ NumFields = 3
    /\ MarkedFields(ast) = {}
    /\ ast.fields[3].attrs # <<>>
    /\ result = Panic(NoDerefFieldSpecified)

\* C6: an enum or a union fails with UnsupportedTypeKind whatever markers it
\* holds and however many fields it has; the walk over the fields does not
\* start.
C6_NonStructUnsupported ==
    (Done /\ ast.kind \in {"Enum", "Union"}) =>
        /\ result = Panic(UnsupportedTypeKind)
        /\ i = 0 /\ j = 0 /\ ~deref_field.some

C6_Witness ==
    /\ Done /\ ast.kind = "Enum" /\ ast.style = "Unit"
    /\ result = Panic(UnsupportedTypeKind)

\* C7: a struct whose only recognized marker is `deref(mutable)` on field p
\* gets both impls over the same accessor path, and a value assigned through
\* DerefMut is the value read back through Deref.
C7_WriteThenRead ==
    /\ (Done /\ IsStruct) =>
          \A p \in 1..NumFields : \A k \in 1..Len(ast.fields[p].attrs) :
              (SoleMarker(ast, p, k) /\ ast.fields[p].attrs[k] = MutableMarker) =>
                  /\ result.kind = "Generated"
                  /\ result.deref_mut.present
                  /\ result.deref.accessor = ExpectedAccessor(ast, p)
                  /\ result.deref_mut.accessor = result.deref.accessor
    /\ (written.some /\ observed.some) => observed.value = written.value

C7_Witness ==
    /\ Done /\ IsStruct /\ NumFields = 2
    /\ SoleMarker(ast, 2, 1)
    /\ ast.fields[2].attrs = <<MutableMarker>>
    /\ instance # NoInstance
    /\ instance[1] = 5
    /\ written = Value(10)
    /\ observed = Value(10)

\* C8: an invocation on a declaration ends as an earlier invocation on the
\* same declaration ended, whatever was processed before or in between.
C8_SameOutcomeOnRepeat ==
    (Done /\ remembered.some /\ remembered.ast = ast) =>
        result = remembered.result

C8_Witness ==
    /\ Done
    /\ remembered.some
    /\ remembered.intervened
    /\ remembered.ast = ast
    /\ result.kind = "Generated"
    /\ is_field_mutable = FALSE

\* C9: MultipleDerefFields is raised only when more than one distinct field
\* carries a recognized marker; a struct whose recognized markers all sit on
\* one field is processed successfully with that field selected.
C9_OneMarkedFieldSucceeds ==
    (Done /\ IsStruct) =>
        /\ result = Panic(MultipleDerefFields) =>
              Cardinality(MarkedFields(ast)) >= 2
        /\ \A p \in 1..NumFields :
              MarkedFields(ast) = {p} =>
                  /\ result.kind = "Generated"
                  /\ result.deref.target = FieldTypes[p]

\* C10: visiting an attribute that is not one of the two recognized forms
\* (another name, `deref = ..`, or not a meta item) neither selects a field,
\* nor fails, nor changes the selection or the mutability.
VisitingUnrecognized ==
    /\ pc = "loop"
    /\ i < NumFields
    /\ j < Len(ast.fields[i + 1].attrs)
    /\ ~IsRecognized(ast.fields[i + 1].attrs[j + 1])

C10_UnrecognizedIgnored ==
    [][VisitingUnrecognized =>
          /\ deref_field' = deref_field
          /\ is_field_mutable' = is_field_mutable
          /\ result' = result
          /\ pc' = "loop"]_vars

C10_Witness ==
    /\ Done /\ IsStruct
    /\ result.kind = "Generated"
    /\ result.deref_mut.present
    /\ \E p \in 1..NumFields : \E k \in 1..Len(ast.fields[p].attrs) :
          /\ ast.fields[p].attrs[k].path = "deref"
          /\ ~IsRecognized(ast.fields[p].attrs[k])
          /\ p > deref_field.index + 1

====
